---- MODULE Spec2Model ----
(***************************************************************************)
(* Model of export_crm_api.py: the batched fetch / resolve / flatten /     *)
(* stream export of crm.lead records over XML-RPC into a CSV file.         *)
(*                                                                         *)
(* The script is one sequential top-level program; pc is its position.     *)
(* The remote store (leads and related entities) is the script's           *)
(* environment: it answers the script's calls and is written to by other   *)
(* clients while the export runs.                                          *)
(***************************************************************************)
EXTENDS Integers, Sequences, FiniteSets, TLC

(* ------------------------------ bounds -------------------------------- *)

\* Largest number of leads in the store when the script starts.
MaxInitLeads == 2
\* Largest value of the configurable BATCH_SIZE explored.
MaxBatchSize == 2
\* Largest number of writes by other clients during one run.
MaxExternalWrites == 1

(* ------------------- values crossing the RPC boundary ----------------- *)
\* XML-RPC values are dynamically typed; every value is a record of the
\* same shape so that values of different Python types can be compared.

PyFalse == [t |-> "false", n |-> 0, s |-> ""]
PyTrue == [t |-> "true", n |-> 1, s |-> ""]
Num(i) == [t |-> "num", n |-> i, s |-> ""]
Str(x) == [t |-> "str", n |-> 0, s |-> x]
\* a many2one value: the list [id, display_name]
Pair(i, label) == [t |-> "pair", n |-> i, s |-> label]
\* a jsonb translation dict, reduced to its first value
Dict(first) == [t |-> "dict", n |-> 0, s |-> first]

\* isinstance(v, (list, tuple)) for a many2one field
IsPair(v) == v.t = "pair"

\* unicodedata.normalize("NFC", s).strip() on the strings of the model:
\* padded strings lose their padding, the decomposed spelling (written
\* with a trailing ') becomes the composed one.
Normalize(s) ==
    CASE s = " Deal A " -> "Deal A"
      [] s = " Acme " -> "Acme"
      [] s = " a@acme.io " -> "a@acme.io"
      [] s = "Espan'a" -> "Espana"
      [] s = "Urgente " -> "Urgente"
      [] OTHER -> s

\* str(v) as Python renders the values of the model
PyStr(v) ==
    CASE v.t = "str" -> v.s
      [] v.t = "num" -> ToString(v.n)
      [] v.t = "false" -> "False"
      [] v.t = "true" -> "True"
      [] OTHER -> v.s

\* csv.writer renders each cell with str()
CsvCell(v) == PyStr(v)

\* flat with value[0] taken for value[index]: the id for the label
flat_Id(value, index) ==
    IF IsPair(value) THEN Num(value.n)
    ELSE IF value.t = "false" THEN Str("")
    ELSE IF value.t = "str" THEN Str(Normalize(value.s))
    ELSE value

\* flat(value, index=1)
flat(value, index) ==
    LET v == IF IsPair(value)
             THEN (IF index = 1 THEN Str(value.s) ELSE Num(value.n))
             ELSE value
    IN IF ~IsPair(value) /\ value.t = "false" THEN Str("")
       ELSE IF v.t = "str" THEN Str(Normalize(v.s))
       ELSE v

(* ----------------------------- the schema ----------------------------- *)

\* The columns of HEADERS, one per distinct way the script fills a column.
HEADERS ==
    [id |-> "id", opportunity_name |-> "opportunity_name", active |-> "active",
     probability |-> "probability", expected_revenue |-> "expected_revenue",
     recurring_revenue |-> "recurring_revenue", date_deadline |-> "date_deadline",
     stage_name |-> "stage_name", stage_sequence |-> "stage_sequence",
     partner_name |-> "partner_name", partner_email |-> "partner_email",
     partner_country |-> "partner_country",
     assigned_user_login |-> "assigned_user_login",
     assigned_user_name |-> "assigned_user_name", tags |-> "tags"]

(* --------------------------- the remote store ------------------------- *)

\* The field values a lead can carry (everything of a lead but its id).
ShapeFull ==
    [name |-> Str(" Deal A "), active |-> PyTrue, probability |-> Num(20),
     expected_revenue |-> Num(100), recurring_revenue |-> Num(0),
     date_deadline |-> Str("2024-01-31"),
     stage_id |-> Pair(1, "New"), partner_id |-> Pair(1, " Acme "),
     user_id |-> Pair(1, "Ann"), tag_ids |-> <<1, 2>>]

ShapeShared ==
    [name |-> Str("Deal B"), active |-> PyFalse, probability |-> PyFalse,
     expected_revenue |-> PyFalse, recurring_revenue |-> PyFalse,
     date_deadline |-> PyFalse,
     stage_id |-> Pair(2, "Won"), partner_id |-> Pair(1, " Acme "),
     user_id |-> Pair(1, "Ann"), tag_ids |-> <<2>>]

ShapeBare ==
    [name |-> PyFalse, active |-> PyTrue, probability |-> Num(0),
     expected_revenue |-> Num(0), recurring_revenue |-> Num(0),
     date_deadline |-> PyFalse,
     stage_id |-> PyFalse, partner_id |-> PyFalse,
     user_id |-> PyFalse, tag_ids |-> <<>>]

LeadShapes == {ShapeFull, ShapeShared, ShapeBare}

Lead(i, shape) == [id |-> i] @@ shape

\* The related entities the store holds when the script starts.
TagIds == {1, 2}
PartnerIds == {1}
StageIds == {1, 2}
UserIds == {1}

Relations == {"crm.tag", "res.partner", "crm.stage", "res.users"}

AllRelated ==
    [m \in Relations |->
        CASE m = "crm.tag" -> TagIds
          [] m = "res.partner" -> PartnerIds
          [] m = "crm.stage" -> StageIds
          [] m = "res.users" -> UserIds]

\* What read() returns for one entity of each model.
TagRecord(i) ==
    [id |-> i, name |-> IF i = 1 THEN Str("Hot") ELSE Dict("Urgente ")]
PartnerRecord(i) ==
    [id |-> i, email |-> Str(" a@acme.io "), country_id |-> Pair(68, "Espan'a")]
StageRecord(i) ==
    [id |-> i, sequence |-> IF i = 1 THEN Num(1) ELSE PyFalse]
UserRecord(i) ==
    [id |-> i, login |-> Str("ann")]

VARIABLES
    pc, uid, total, exported, batches, batch_num, BATCH_SIZE, records,
    tag_name_map, partner_map, stage_map, user_login_map,
    fileExists, file, exitCode, failure,
    leads, related, nextId,
    calls, fetched, rowBatch, stable, leadsChanged, leadDeleted, extWrites

progVars == <<pc, uid, total, exported, batches, batch_num, BATCH_SIZE, records,
              tag_name_map, partner_map, stage_map, user_login_map,
              fileExists, file, exitCode, failure>>
storeVars == <<leads, related, nextId>>
histVars == <<calls, fetched, rowBatch, stable, leadsChanged, leadDeleted, extWrites>>
vars == <<progVars, storeVars, histVars>>

(* --------------------------- sequence helpers ------------------------- *)

Min(a, b) == IF a < b THEN a ELSE b

Range(s) == {s[i] : i \in 1..Len(s)}

\* The elements of a set of integers in ascending order.
RECURSIVE Ascending(_)
Ascending(S) ==
    IF S = {} THEN <<>>
    ELSE LET m == CHOOSE x \in S : \A y \in S : x <= y
         IN <<m>> \o Ascending(S \ {m})

RECURSIVE Concat(_)
Concat(ss) == IF ss = <<>> THEN <<>> ELSE Head(ss) \o Concat(Tail(ss))

\* " | ".join(names)
RECURSIVE Join(_)
Join(names) ==
    IF names = <<>> THEN ""
    ELSE IF Len(names) = 1 THEN names[1]
    ELSE names[1] \o " | " \o Join(Tail(names))

\* dict.get(key, default)
Get(map, key, default) == IF key \in DOMAIN map THEN map[key] ELSE default

\* {} : a dict with no key
EmptyMap == <<>>

(* ----------------------- what the store answers ---------------------- *)

LeadIds == {l.id : l \in leads}
LeadById(i) == CHOOSE l \in leads : l.id = i

\* search_count([]) with active_test False: every lead counts.
search_count == Cardinality(leads)

\* The window the offset of a search_read selects in n ordered records.
Window(n, limit, offset) == (offset + 1)..Min(offset + limit, n)

\* search_read([], limit, offset, order="id asc")
search_read(limit, offset) ==
    LET ids == Ascending(LeadIds)
        w == Window(Len(ids), limit, offset)
    IN [k \in 1..Cardinality(w) |-> LeadById(ids[offset + k])]

\* read(ids) on a related model: one record per id the store still holds.
ReadRelated(model, ids) ==
    SelectSeq(ids, LAMBDA i : i \in related[model])

\* One entry of the log of execute_kw calls: the call, whether it returned
\* (ok) and how many data rows the file held when it was issued.
Call(model, method, limit, offset, ids, ok) ==
    [model |-> model, method |-> method, limit |-> limit, offset |-> offset,
     ids |-> ids, batch |-> batch_num, ok |-> ok, rows |-> Len(rowBatch)]

(* --------------------------- program helpers -------------------------- *)

\* batches = total // BATCH_SIZE + 1 : one batch too many when it divides
BatchCount_PlusOne(t, size) == t \div size + 1

\* batches = total // BATCH_SIZE : the floor, losing the last partial batch
BatchCount_Floor(t, size) == t \div size

\* batches = (total + BATCH_SIZE - 1) // BATCH_SIZE
BatchCount(t, size) == (t + size - 1) \div size

\* offset = batch_num : the batch number taken for the offset
Offset_BatchNum(num, size) == num

\* offset = batch_num * BATCH_SIZE
Offset(num, size) == num * size

\* list(a generator): every element as collected, repeats kept
ListOfSet_Repeats(seq) == seq

\* list(a set comprehension): the distinct elements, each once. Python does
\* not fix the order of a set; the ascending order stands for any of them,
\* as the list is only used as the id argument of one read.
ListOfSet(seq) == Ascending(Range(seq))

\* tid for r in records for tid in (r.get("tag_ids") or [])
TagRefs(recs) == Concat([k \in 1..Len(recs) |-> recs[k].tag_ids])

\* r[field][0] for r in records if isinstance(r.get(field), (list, tuple))
PairRefs(recs, field) ==
    LET withRef == SelectSeq(recs, LAMBDA r : IsPair(r[field]))
    IN [k \in 1..Len(withRef) |-> withRef[k][field].n]

all_tag_ids(recs) == ListOfSet(TagRefs(recs))
partner_ids(recs) == ListOfSet(PairRefs(recs, "partner_id"))
stage_ids(recs) == ListOfSet(PairRefs(recs, "stage_id"))
user_ids(recs) == ListOfSet(PairRefs(recs, "user_id"))

\* if not uid, with the test inverted away: any returned value passes
Falsy_Never(u) == FALSE

\* not uid
Falsy(u) == u = 0

\* the total == 0 test left out
NothingToExport_Never(t) == FALSE

\* total == 0
NothingToExport(t) == t = 0

\* the maps created once, before the loop: a batch without references
\* keeps the map of the batch before
FreshMap_Kept(old) == old

\* m_map = {} : the map a batch starts from, whatever the map (old) of the
\* batch before held
FreshMap(old) == EmptyMap

\* except Exception: pass -- the failure is noted and the batch carries on
Raise_Swallowed(kind) ==
    /\ pc' = "write"
    /\ exitCode' = exitCode
    /\ failure' = kind

\* An uncaught exception (or sys.exit(1)): the script ends, the with
\* statement closes the file where it is, and the exit code is 1.
Raise(kind) ==
    /\ pc' = "failed"
    /\ exitCode' = 1
    /\ failure' = kind

\* tag_name_map[t["id"]] = normalize("NFC", str(n)).strip(), n the name or
\* the first value of the jsonb dict
TagName(t) == Normalize(PyStr(t.name))

\* The row the script builds for record r from the maps of the batch.
Row(r) ==
    LET tag_names == Join([k \in 1..Len(r.tag_ids) |->
                              Get(tag_name_map, r.tag_ids[k], "")])
        hasP == IsPair(r.partner_id) /\ r.partner_id.n \in DOMAIN partner_map
        pget(field) == IF hasP THEN partner_map[r.partner_id.n][field] ELSE Str("")
        stage_seq == IF IsPair(r.stage_id)
                     THEN Get(stage_map, r.stage_id.n, Str("")) ELSE Str("")
        user_login == IF IsPair(r.user_id)
                      THEN Get(user_login_map, r.user_id.n, Str("")) ELSE Str("")
        user_name == flat(r.user_id, 1)
    IN [id |-> CsvCell(Num(r.id)),
        opportunity_name |-> CsvCell(flat(r.name, 1)),
        active |-> CsvCell(r.active),
        probability |-> IF r.probability # PyFalse
                        THEN PyStr(r.probability) ELSE "",
        expected_revenue |-> CsvCell(r.expected_revenue),
        recurring_revenue |-> CsvCell(r.recurring_revenue),
        date_deadline |-> CsvCell(flat(r.date_deadline, 1)),
        stage_name |-> CsvCell(flat(r.stage_id, 1)),
        stage_sequence |-> CsvCell(stage_seq),
        partner_name |-> CsvCell(flat(r.partner_id, 1)),
        partner_email |-> CsvCell(flat(pget("email"), 1)),
        partner_country |-> CsvCell(flat(pget("country_id"), 1)),
        assigned_user_login |-> CsvCell(user_login),
        assigned_user_name |-> CsvCell(user_name),
        tags |-> tag_names]

(* ------------------------------- Init --------------------------------- *)

Init ==
    /\ pc = "auth"
    /\ uid = 0
    /\ total = 0
    /\ exported = 0
    /\ batches = 0
    /\ batch_num = 0
    /\ BATCH_SIZE \in 1..MaxBatchSize
    /\ records = <<>>
    /\ tag_name_map = EmptyMap
    /\ partner_map = EmptyMap
    /\ stage_map = EmptyMap
    /\ user_login_map = EmptyMap
    /\ fileExists = FALSE
    /\ file = <<>>
    /\ exitCode = -1
    /\ failure = "none"
    /\ \E n \in 0..MaxInitLeads :
         \E shapes \in [1..n -> LeadShapes] :
            /\ leads = {Lead(i, shapes[i]) : i \in 1..n}
            /\ nextId = n + 1
    /\ related = AllRelated
    /\ calls = <<>>
    /\ fetched = <<>>
    /\ rowBatch = <<>>
    /\ stable = LeadIds
    /\ leadsChanged = FALSE
    /\ leadDeleted = FALSE
    /\ extWrites = 0

(* --------------------------- program actions -------------------------- *)

\* uid = common.authenticate(...): the call raises, or returns False for
\* rejected credentials, or returns the user's id.
\* except Exception: sys.exit(1);  if not uid: sys.exit(1)
Authenticate ==
    /\ pc = "auth"
    /\ \E outcome \in {"raises", "returns"} :
         \E u \in {0, 2} :
            IF outcome = "raises"
            THEN /\ uid' = uid
                 /\ Raise("auth")
            ELSE /\ uid' = u
                 /\ IF Falsy(u)
                    THEN Raise("auth")
                    ELSE /\ pc' = "count"
                         /\ UNCHANGED <<exitCode, failure>>
    /\ UNCHANGED <<total, exported, batches, batch_num, BATCH_SIZE, records,
                   tag_name_map, partner_map, stage_map, user_login_map,
                   fileExists, file>>
    /\ UNCHANGED <<storeVars, histVars>>

\* total = call("crm.lead", "search_count", ...); if total == 0: exit(0);
\* exported = 0; batches = ceil(total / BATCH_SIZE)
Count ==
    /\ pc = "count"
    /\ \E ok \in BOOLEAN :
         /\ calls' = Append(calls, Call("crm.lead", "search_count", 0, 0, <<>>, ok))
         /\ IF ~ok
            THEN /\ Raise("count")
                 /\ UNCHANGED <<total, exported, batches>>
            ELSE /\ total' = search_count
                 /\ failure' = failure
                 /\ IF NothingToExport(search_count)
                    THEN /\ pc' = "complete"
                         /\ exitCode' = 0
                         /\ UNCHANGED <<exported, batches>>
                    ELSE /\ pc' = "open"
                         /\ exitCode' = exitCode
                         /\ exported' = 0
                         /\ batches' = BatchCount(search_count, BATCH_SIZE)
    /\ leadsChanged' = FALSE
    /\ leadDeleted' = FALSE
    /\ UNCHANGED <<uid, batch_num, BATCH_SIZE, records,
                   tag_name_map, partner_map, stage_map, user_login_map,
                   fileExists, file>>
    /\ UNCHANGED <<storeVars, fetched, rowBatch, stable, extWrites>>

\* with open(OUTPUT_FILE, "w") as f: writer.writerow(HEADERS); first
\* evaluation of range(batches)
OpenSink ==
    /\ pc = "open"
    /\ \E ok \in BOOLEAN :
         IF ok
         THEN /\ fileExists' = TRUE
              /\ file' = <<HEADERS>>
              /\ batch_num' = 0
              /\ pc' = IF batches > 0 THEN "fetch" ELSE "summary"
              /\ UNCHANGED <<exitCode, failure>>
         ELSE /\ Raise("open")
              /\ UNCHANGED <<fileExists, file, batch_num>>
    /\ UNCHANGED <<uid, total, exported, batches, BATCH_SIZE, records,
                   tag_name_map, partner_map, stage_map, user_login_map>>
    /\ UNCHANGED <<storeVars, histVars>>

\* records = call("crm.lead", "search_read", [], limit=BATCH_SIZE,
\*                offset=offset, order="id asc")
Fetch ==
    /\ pc = "fetch"
    /\ LET offset == Offset(batch_num, BATCH_SIZE) IN
       \E ok \in BOOLEAN :
         /\ calls' = Append(calls, Call("crm.lead", "search_read",
                                        BATCH_SIZE, offset, <<>>, ok))
         /\ IF ok
            THEN /\ records' = search_read(BATCH_SIZE, offset)
                 /\ fetched' = Append(fetched, search_read(BATCH_SIZE, offset))
                 /\ pc' = "tags"
                 /\ UNCHANGED <<exitCode, failure>>
            ELSE /\ Raise("fetch")
                 /\ UNCHANGED <<records, fetched>>
    /\ UNCHANGED <<uid, total, exported, batches, batch_num, BATCH_SIZE,
                   tag_name_map, partner_map, stage_map, user_login_map,
                   fileExists, file>>
    /\ UNCHANGED <<storeVars, rowBatch, stable, leadsChanged, leadDeleted, extWrites>>

\* all_tag_ids = list({...}); tag_name_map = {}; if all_tag_ids: one read
\* of crm.tag, then tag_name_map[t["id"]] = the normalised name
ResolveTags ==
    /\ pc = "tags"
    /\ LET ids == all_tag_ids(records) IN
       IF ids = <<>>
       THEN /\ tag_name_map' = FreshMap(tag_name_map)
            /\ pc' = "partners"
            /\ UNCHANGED <<calls, exitCode, failure>>
       ELSE \E ok \in BOOLEAN :
            /\ calls' = Append(calls, Call("crm.tag", "read", 0, 0, ids, ok))
            /\ IF ok
               THEN /\ tag_name_map' =
                         [i \in Range(ReadRelated("crm.tag", ids)) |->
                             TagName(TagRecord(i))]
                    /\ pc' = "partners"
                    /\ UNCHANGED <<exitCode, failure>>
               ELSE /\ tag_name_map' = FreshMap(tag_name_map)
                    /\ Raise("read")
    /\ UNCHANGED <<uid, total, exported, batches, batch_num, BATCH_SIZE, records,
                   partner_map, stage_map, user_login_map, fileExists, file>>
    /\ UNCHANGED <<storeVars, fetched, rowBatch, stable, leadsChanged,
                   leadDeleted, extWrites>>

\* partner_ids = list({...}); partner_map = {}; if partner_ids: one read of
\* res.partner, then partner_map[p["id"]] = p
ResolvePartners ==
    /\ pc = "partners"
    /\ LET ids == partner_ids(records) IN
       IF ids = <<>>
       THEN /\ partner_map' = FreshMap(partner_map)
            /\ pc' = "stages"
            /\ UNCHANGED <<calls, exitCode, failure>>
       ELSE \E ok \in BOOLEAN :
            /\ calls' = Append(calls, Call("res.partner", "read", 0, 0, ids, ok))
            /\ IF ok
               THEN /\ partner_map' =
                         [i \in Range(ReadRelated("res.partner", ids)) |->
                             PartnerRecord(i)]
                    /\ pc' = "stages"
                    /\ UNCHANGED <<exitCode, failure>>
               ELSE /\ partner_map' = FreshMap(partner_map)
                    /\ Raise("read")
    /\ UNCHANGED <<uid, total, exported, batches, batch_num, BATCH_SIZE, records,
                   tag_name_map, stage_map, user_login_map, fileExists, file>>
    /\ UNCHANGED <<storeVars, fetched, rowBatch, stable, leadsChanged,
                   leadDeleted, extWrites>>

\* stage_ids = list({...}); stage_map = {}; if stage_ids: one read of
\* crm.stage, then stage_map[s["id"]] = s["sequence"]
ResolveStages ==
    /\ pc = "stages"
    /\ LET ids == stage_ids(records) IN
       IF ids = <<>>
       THEN /\ stage_map' = FreshMap(stage_map)
            /\ pc' = "users"
            /\ UNCHANGED <<calls, exitCode, failure>>
       ELSE \E ok \in BOOLEAN :
            /\ calls' = Append(calls, Call("crm.stage", "read", 0, 0, ids, ok))
            /\ IF ok
               THEN /\ stage_map' =
                         [i \in Range(ReadRelated("crm.stage", ids)) |->
                             StageRecord(i).sequence]
                    /\ pc' = "users"
                    /\ UNCHANGED <<exitCode, failure>>
               ELSE /\ stage_map' = FreshMap(stage_map)
                    /\ Raise("read")
    /\ UNCHANGED <<uid, total, exported, batches, batch_num, BATCH_SIZE, records,
                   tag_name_map, partner_map, user_login_map, fileExists, file>>
    /\ UNCHANGED <<storeVars, fetched, rowBatch, stable, leadsChanged,
                   leadDeleted, extWrites>>

\* user_ids = list({...}); user_login_map = {}; if user_ids: one read of
\* res.users, then user_login_map[u["id"]] = u["login"]
ResolveUsers ==
    /\ pc = "users"
    /\ LET ids == user_ids(records) IN
       IF ids = <<>>
       THEN /\ user_login_map' = FreshMap(user_login_map)
            /\ pc' = "write"
            /\ UNCHANGED <<calls, exitCode, failure>>
       ELSE \E ok \in BOOLEAN :
            /\ calls' = Append(calls, Call("res.users", "read", 0, 0, ids, ok))
            /\ IF ok
               THEN /\ user_login_map' =
                         [i \in Range(ReadRelated("res.users", ids)) |->
                             UserRecord(i).login]
                    /\ pc' = "write"
                    /\ UNCHANGED <<exitCode, failure>>
               ELSE /\ user_login_map' = FreshMap(user_login_map)
                    /\ Raise("read")
    /\ UNCHANGED <<uid, total, exported, batches, batch_num, BATCH_SIZE, records,
                   tag_name_map, partner_map, stage_map, fileExists, file>>
    /\ UNCHANGED <<storeVars, fetched, rowBatch, stable, leadsChanged,
                   leadDeleted, extWrites>>

\* The rows of the batch, in the order of its records.
BatchRows == [k \in 1..Len(records) |-> Row(records[k])]

\* for r in records: writer.writerow(row); exported += len(records); the
\* progress line; the next evaluation of range(batches). A write may fail
\* (IOError) after any number of rows of the batch.
WriteRows ==
    /\ pc = "write"
    /\ \/ /\ file' = file \o BatchRows
          /\ rowBatch' = rowBatch \o [k \in 1..Len(records) |-> batch_num]
          /\ exported' = exported + Len(records)
          /\ IF batch_num + 1 < batches
             THEN /\ batch_num' = batch_num + 1
                  /\ pc' = "fetch"
             ELSE /\ batch_num' = batch_num
                  /\ pc' = "summary"
          /\ UNCHANGED <<exitCode, failure>>
       \/ \E j \in 0..(Len(records) - 1) :
          /\ file' = file \o SubSeq(BatchRows, 1, j)
          /\ rowBatch' = rowBatch \o [k \in 1..j |-> batch_num]
          /\ Raise("write")
          /\ UNCHANGED <<exported, batch_num>>
    /\ UNCHANGED <<uid, total, batches, BATCH_SIZE, records,
                   tag_name_map, partner_map, stage_map, user_login_map,
                   fileExists>>
    /\ UNCHANGED <<storeVars, calls, fetched, stable, leadsChanged,
                   leadDeleted, extWrites>>

\* leaving the with block closes the file; the summary is printed and the
\* script ends with exit code 0
Summary ==
    /\ pc = "summary"
    /\ pc' = "complete"
    /\ exitCode' = 0
    /\ UNCHANGED <<uid, total, exported, batches, batch_num, BATCH_SIZE, records,
                   tag_name_map, partner_map, stage_map, user_login_map,
                   fileExists, file, failure>>
    /\ UNCHANGED <<storeVars, histVars>>

(* --------------------- writes by other clients ------------------------ *)
\* The store is shared: while the script runs, other clients create and
\* delete leads and delete related entities. A new lead gets the next id of
\* the table's sequence, above every id ever given.
\* The script observes the leads only through search_count and search_read,
\* and the related entities only through the reads of a batch, each of a
\* different model: a write is placed right before the calls that can
\* observe it.
BeforeLeadCall == pc \in {"count", "fetch"}
BeforeReads == pc = "tags"

ExternalInsert ==
    /\ BeforeLeadCall
    /\ extWrites < MaxExternalWrites
    /\ \E shape \in LeadShapes :
         leads' = leads \cup {Lead(nextId, shape)}
    /\ nextId' = nextId + 1
    /\ leadsChanged' = TRUE
    /\ extWrites' = extWrites + 1
    /\ UNCHANGED <<progVars, related, calls, fetched, rowBatch, stable, leadDeleted>>

ExternalDelete ==
    /\ BeforeLeadCall
    /\ extWrites < MaxExternalWrites
    /\ \E l \in leads :
         /\ leads' = leads \ {l}
         /\ stable' = stable \ {l.id}
    /\ leadsChanged' = TRUE
    /\ leadDeleted' = TRUE
    /\ extWrites' = extWrites + 1
    /\ UNCHANGED <<progVars, related, nextId, calls, fetched, rowBatch>>

ExternalDeleteRelated ==
    /\ BeforeReads
    /\ extWrites < MaxExternalWrites
    /\ \E m \in Relations :
         \E i \in related[m] :
            related' = [related EXCEPT ![m] = @ \ {i}]
    /\ extWrites' = extWrites + 1
    /\ UNCHANGED <<progVars, leads, nextId, calls, fetched, rowBatch, stable,
                   leadsChanged, leadDeleted>>

Next ==
    \/ Authenticate
    \/ Count
    \/ OpenSink
    \/ Fetch
    \/ ResolveTags
    \/ ResolvePartners
    \/ ResolveStages
    \/ ResolveUsers
    \/ WriteRows
    \/ Summary
    \/ ExternalInsert
    \/ ExternalDelete
    \/ ExternalDeleteRelated

Spec == Init /\ [][Next]_vars

(* ==================== properties of the export ======================= *)

\* The data rows of the file: everything after its first line.
DataRows == IF Len(file) > 0 THEN Tail(file) ELSE <<>>

RECURSIVE SumLens(_)
SumLens(ss) == IF ss = <<>> THEN 0 ELSE Len(Head(ss)) + SumLens(Tail(ss))

\* The script ran to its end without an exception.
Completed == pc = "complete"

\* How many data rows carry the id of lead i.
RowsOf(i) == Cardinality({k \in 1..Len(DataRows) : DataRows[k].id = ToString(i)})

\* The least n with n * size >= t.
CeilDiv(t, size) == CHOOSE n \in 0..t : n * size >= t /\ (n = 0 \/ (n - 1) * size < t)

FetchCalls == SelectSeq(calls, LAMBDA c : c.method = "search_read")

ReadCalls(b, m) ==
    SelectSeq(calls, LAMBDA c : c.method = "read" /\ c.batch = b /\ c.model = m)

(* ------------------------------- C1 ----------------------------------- *)

\* C1 as stated: a run with total > 0 that completes fetched exactly total
\* records over its batches and wrote exactly that many data rows.
C1_RowsEqualTotal ==
    (Completed /\ total > 0) =>
        /\ SumLens(fetched) = total
        /\ Len(DataRows) = SumLens(fetched)

\* C1 as amended: a run with total > 0 that completes wrote exactly as many
\* data rows as it fetched records, and that number is total when no lead
\* was created or deleted after the count.
C1_RowsEqualFetched ==
    (Completed /\ total > 0) =>
        /\ Len(DataRows) = SumLens(fetched)
        /\ exported = SumLens(fetched)
        /\ (~leadsChanged => SumLens(fetched) = total)

C1_Witness ==
    /\ Completed
    /\ ~leadsChanged
    /\ Len(fetched) >= 2
    /\ total = 3
    /\ Len(DataRows) = 3

(* ------------------------------- C2 ----------------------------------- *)

\* The count returned and found no lead.
CountedZero ==
    /\ Len(calls) >= 1
    /\ calls[1].ok
    /\ total = 0

\* C2 as stated: when the count is 0 the run completes with exit code 0 and
\* the file exists and holds the header row and nothing else.
C2_HeaderOnlyFile ==
    CountedZero =>
        /\ Completed
        /\ exitCode = 0
        /\ fileExists
        /\ file = <<HEADERS>>

\* C2 as amended: when the count is 0 the run completes with exit code 0
\* right after the count; the file is never opened, so no header row is
\* written, and no other remote call is made.
C2_NoFileOnZero ==
    CountedZero =>
        /\ Completed
        /\ exitCode = 0
        /\ ~fileExists
        /\ file = <<>>
        /\ Len(calls) = 1

C2_Witness ==
    /\ CountedZero
    /\ Completed
    /\ leads = {}

(* ------------------------------- C3 ----------------------------------- *)

NoRowTwice == \A i \in 1..nextId : RowsOf(i) <= 1

\* C3 as stated: whatever other clients write during the export, every
\* lead held by the store for the whole run is in exactly one data row and
\* no id is in two data rows.
C3_NoSkipNoDuplicate ==
    /\ NoRowTwice
    /\ Completed => \A i \in stable : RowsOf(i) = 1

\* C3 as amended: no id is ever in two data rows; and when no lead was
\* deleted after the count, every lead held by the store for the whole run
\* is in exactly one data row of a completed export.
C3_NoDuplicate ==
    /\ NoRowTwice
    /\ (Completed /\ ~leadDeleted) => \A i \in stable : RowsOf(i) = 1

C3_Witness ==
    /\ Completed
    /\ leadsChanged
    /\ ~leadDeleted
    /\ Len(fetched) >= 2
    /\ Cardinality(stable) >= 2
    /\ \A i \in stable : RowsOf(i) = 1

(* ------------------------------- C4 ----------------------------------- *)

\* The ids the records of the current batch reference through a relation.
RefSet(m) ==
    CASE m = "crm.tag" ->
            UNION {Range(records[k].tag_ids) : k \in 1..Len(records)}
      [] m = "res.partner" ->
            {records[k].partner_id.n :
                k \in {j \in 1..Len(records) : IsPair(records[j].partner_id)}}
      [] m = "crm.stage" ->
            {records[k].stage_id.n :
                k \in {j \in 1..Len(records) : IsPair(records[j].stage_id)}}
      [] m = "res.users" ->
            {records[k].user_id.n :
                k \in {j \in 1..Len(records) : IsPair(records[j].user_id)}}

\* Every relation of the current batch has been resolved.
Resolved == pc = "write"

\* C4: once a batch is resolved, each relation its records reference has
\* had exactly one read, whose ids are the distinct referenced ids, each
\* once; a relation no record references has had no read.
C4_OneReadPerRelation ==
    Resolved =>
        \A m \in Relations :
            LET cs == ReadCalls(batch_num, m) IN
            IF RefSet(m) = {}
            THEN cs = <<>>
            ELSE /\ Len(cs) = 1
                 /\ Range(cs[1].ids) = RefSet(m)
                 /\ Len(cs[1].ids) = Cardinality(RefSet(m))

C4_Witness ==
    /\ Resolved
    /\ Len(records) = 2
    /\ IsPair(records[1].partner_id)
    /\ IsPair(records[2].partner_id)
    /\ records[1].partner_id.n = records[2].partner_id.n
    /\ Len(ReadCalls(batch_num, "res.partner")) = 1
    /\ Cardinality(RefSet("crm.stage")) = 2

(* ------------------------------- C5 ----------------------------------- *)

\* The rows of the last batch have just been written: records and the maps
\* are still those of that batch.
JustWritten == pc \in {"fetch", "summary"} /\ Len(fetched) > 0

\* The row written for the k-th record of the last batch.
LastRow(k) == DataRows[Len(DataRows) - Len(records) + k]

Unresolved(ref, map) == IsPair(ref) /\ ref.n \notin DOMAIN map

\* C5 as stated: a reference whose id the read of the batch did not return
\* leaves its label column empty.
C5_LabelEmpty ==
    JustWritten =>
        \A k \in 1..Len(records) :
            /\ Unresolved(records[k].partner_id, partner_map) =>
                   LastRow(k).partner_name = ""
            /\ Unresolved(records[k].stage_id, stage_map) =>
                   LastRow(k).stage_name = ""
            /\ Unresolved(records[k].user_id, user_login_map) =>
                   LastRow(k).assigned_user_name = ""

\* C5 as amended: the row of such a record is still written, the columns
\* filled from the read (partner_email, partner_country, stage_sequence,
\* assigned_user_login) are empty, and the label column holds the
\* normalised label of the record's own (id, label) pair.
C5_DetailsEmptyLabelKept ==
    JustWritten =>
        /\ Len(DataRows) >= Len(records)
        /\ \A k \in 1..Len(records) :
            /\ LastRow(k).id = ToString(records[k].id)
            /\ Unresolved(records[k].partner_id, partner_map) =>
                   /\ LastRow(k).partner_email = ""
                   /\ LastRow(k).partner_country = ""
                   /\ LastRow(k).partner_name = Normalize(records[k].partner_id.s)
            /\ Unresolved(records[k].stage_id, stage_map) =>
                   /\ LastRow(k).stage_sequence = ""
                   /\ LastRow(k).stage_name = Normalize(records[k].stage_id.s)
            /\ Unresolved(records[k].user_id, user_login_map) =>
                   /\ LastRow(k).assigned_user_login = ""
                   /\ LastRow(k).assigned_user_name = Normalize(records[k].user_id.s)

C5_Witness ==
    /\ JustWritten
    /\ Len(records) >= 1
    /\ Unresolved(records[1].partner_id, partner_map)
    /\ LastRow(1).partner_email = ""
    /\ failure = "none"

(* ------------------------------- C6 ----------------------------------- *)

\* The ids of the records of the first b batches, in the order fetched.
IdsOfBatches(b) ==
    LET recs == Concat(SubSeq(fetched, 1, b))
    IN [k \in 1..Len(recs) |-> ToString(recs[k].id)]

\* C6: when the fetch or a read of batch k fails, the run has failed with a
\* non-zero exit code, the failed call is the last call made, and the file
\* holds the header and exactly the rows of batches 0..k-1.
C6_FailureKeepsEarlierBatches ==
    failure \in {"fetch", "read"} =>
        /\ pc = "failed"
        /\ exitCode # 0
        /\ ~calls[Len(calls)].ok
        /\ calls[Len(calls)].batch = batch_num
        /\ \A k \in 1..(Len(calls) - 1) : calls[k].ok
        /\ fileExists
        /\ file[1] = HEADERS
        /\ [k \in 1..Len(DataRows) |-> DataRows[k].id] = IdsOfBatches(batch_num)
        /\ \A k \in 1..Len(rowBatch) : rowBatch[k] < batch_num

C6_Witness ==
    /\ failure = "read"
    /\ pc = "failed"
    /\ batch_num >= 1
    /\ Len(DataRows) >= 1
    /\ Len(fetched) = batch_num + 1
    /\ Len(fetched[batch_num + 1]) >= 1

(* ------------------------------- C7 ----------------------------------- *)

\* C7: when authenticate raises or returns a falsy uid, the run has failed
\* with a non-zero exit code, no file was opened and no call was made.
C7_AuthFailureBeforeAnything ==
    (failure = "auth" \/ (pc # "auth" /\ uid = 0)) =>
        /\ pc = "failed"
        /\ failure = "auth"
        /\ exitCode # 0
        /\ ~fileExists
        /\ file = <<>>
        /\ calls = <<>>

C7_Witness ==
    /\ failure = "auth"
    /\ pc = "failed"
    /\ exitCode = 1

(* ------------------------------- C8 ----------------------------------- *)

\* The fetches are for offsets 0, size, 2*size, ... below total, each with
\* limit size, and a completed run has made CeilDiv(total, size) of them.
FetchWindows ==
    /\ \A k \in 1..Len(FetchCalls) :
          /\ FetchCalls[k].offset = (k - 1) * BATCH_SIZE
          /\ FetchCalls[k].limit = BATCH_SIZE
          /\ FetchCalls[k].offset < total
    /\ (Completed /\ total > 0) => Len(FetchCalls) = CeilDiv(total, BATCH_SIZE)

Partial == Completed /\ total > 0 /\ total % BATCH_SIZE # 0

\* C8 as stated: the fetch windows, and a last batch of total mod size
\* records whenever size does not divide total.
C8_WindowsAndLastBatch ==
    /\ FetchWindows
    /\ Partial => Len(fetched[Len(fetched)]) = total % BATCH_SIZE

\* C8 as amended: the fetch windows; the last batch has total mod size
\* records when size does not divide total and no lead was created or
\* deleted after the count.
C8_WindowsAndQuietLastBatch ==
    /\ FetchWindows
    /\ (Partial /\ ~leadsChanged) => Len(fetched[Len(fetched)]) = total % BATCH_SIZE

C8_Witness ==
    /\ Partial
    /\ ~leadsChanged
    /\ total = 3
    /\ BATCH_SIZE = 2
    /\ Len(FetchCalls) = 2
    /\ Len(fetched[2]) = 1

(* ------------------------------- C9 ----------------------------------- *)

MapDomains ==
    [m \in Relations |->
        CASE m = "crm.tag" -> DOMAIN tag_name_map
          [] m = "res.partner" -> DOMAIN partner_map
          [] m = "crm.stage" -> DOMAIN stage_map
          [] m = "res.users" -> DOMAIN user_login_map]

\* C9: the header is the first line and no other; rows are in ascending
\* batch order; calls are in ascending batch order and the fetch of a batch
\* is issued with every row of the batches before it written; the maps a
\* batch is flattened with hold only what the reads of that batch returned.
C9_Sequential ==
    /\ fileExists => (file[1] = HEADERS /\ \A k \in 2..Len(file) : file[k] # HEADERS)
    /\ ~fileExists => file = <<>>
    /\ \A i, j \in 1..Len(rowBatch) : i < j => rowBatch[i] <= rowBatch[j]
    /\ \A i, j \in 1..Len(calls) : i < j => calls[i].batch <= calls[j].batch
    /\ \A k \in 1..Len(FetchCalls) :
          /\ FetchCalls[k].batch = k - 1
          /\ FetchCalls[k].rows = SumLens(SubSeq(fetched, 1, k - 1))
    /\ Resolved =>
          \A m \in Relations :
              LET cs == ReadCalls(batch_num, m) IN
              MapDomains[m] \subseteq (IF cs = <<>> THEN {} ELSE Range(cs[1].ids))

C9_Witness ==
    /\ Resolved
    /\ batch_num >= 1
    /\ Len(DataRows) >= 1
    /\ RefSet("res.partner") = {}
    /\ Len(ReadCalls(0, "res.partner")) = 1

(* ------------------------------- C10 ---------------------------------- *)

====
